---- MODULE Spec2Model ----
(***************************************************************************)
(* Model of the two deployments of the finance-data tools:                 *)
(*   mcp-server/server.py   the standalone server   (deployment "server")  *)
(*   src/function_app.py    the serverless handler  (deployment "function")*)
(* Each deployment offers the tools get_company_revenue ("revenue") and    *)
(* get_company_free_cash_flow ("fcf").                                     *)
(*                                                                         *)
(* Strings are sequences of one-character strings, so that slicing and     *)
(* int()/float()/upper() are computed.  Money is an integer number of USD; *)
(* a value "in USD millions rounded to 2 decimals" is an integer number of *)
(* hundredths of a million (400.0 is 40000, 0.12 is 12).                   *)
(***************************************************************************)
EXTENDS Integers, Sequences, FiniteSets, TLC

VARIABLES pc, request, api_key, calls, response, result

vars == <<pc, request, api_key, calls, response, result>>

\* The longest quarterlyReports list the upstream source returns in the model.
MaxReports == 2

----------------------------------------------------------------------------
(* Python string primitives *)

Digits == {"0", "1", "2", "3", "4", "5", "6", "7", "8", "9"}

DigitVal(c) ==
    CASE c = "0" -> 0 [] c = "1" -> 1 [] c = "2" -> 2 [] c = "3" -> 3
      [] c = "4" -> 4 [] c = "5" -> 5 [] c = "6" -> 6 [] c = "7" -> 7
      [] c = "8" -> 8 [] c = "9" -> 9

\* str.upper(), one character
UpperChar(c) ==
    CASE c = "a" -> "A" [] c = "d" -> "D" [] c = "f" -> "F" [] c = "g" -> "G"
      [] c = "l" -> "L" [] c = "m" -> "M" [] c = "n" -> "N" [] c = "o" -> "O"
      [] c = "s" -> "S" [] c = "t" -> "T" [] c = "v" -> "V"
      [] OTHER -> c

Upper(s) == [i \in 1..Len(s) |-> UpperChar(s[i])]

Min(a, b) == IF a < b THEN a ELSE b

\* s[lo:hi] with 0-based bounds 0 <= lo <= hi, clamped to the string as Python does
Slice(s, lo, hi) == SubSeq(s, lo + 1, Min(hi, Len(s)))

RECURSIVE LStrip(_)
LStrip(s) == IF Len(s) > 0 /\ s[1] = " " THEN LStrip(Tail(s)) ELSE s

RECURSIVE RStrip(_)
RStrip(s) ==
    IF Len(s) > 0 /\ s[Len(s)] = " " THEN RStrip(SubSeq(s, 1, Len(s) - 1)) ELSE s

RECURSIVE DigitsValue(_)
DigitsValue(s) ==
    IF Len(s) = 0 THEN 0
    ELSE 10 * DigitsValue(SubSeq(s, 1, Len(s) - 1)) + DigitVal(s[Len(s)])

\* The decimal integer literal int(str) and float(str) both accept: surrounding
\* blanks, an optional sign, one or more digits.  ok = FALSE is ValueError.
ParseDecimal(s) ==
    LET t      == RStrip(LStrip(s))
        signed == Len(t) > 0 /\ t[1] \in {"+", "-"}
        body   == IF signed THEN Tail(t) ELSE t
        good   == Len(body) > 0 /\ \A i \in 1..Len(body) : body[i] \in Digits
    IN  IF good
        THEN [ok |-> TRUE,
              val |-> IF signed /\ t[1] = "-" THEN 0 - DigitsValue(body)
                      ELSE DigitsValue(body)]
        ELSE [ok |-> FALSE, val |-> 0]

\* int(s) of a string
PyInt(s) == ParseDecimal(s)

\* float(s) of a string; the upstream amounts are whole numbers of USD
PyFloat(s) == ParseDecimal(s)

Abs(x) == IF x < 0 THEN 0 - x ELSE x

\* Round2 with the amount divided by 1,000,000,000 instead.
Round2_billions(usd) ==
    LET q == usd \div 10000000
        r == usd % 10000000
    IN  IF r < 5000000 THEN {q}
        ELSE IF r > 5000000 THEN {q + 1}
        ELSE {q, q + 1}

\* round(usd / 1_000_000, 2), in hundredths of a million.  When usd lies exactly
\* halfway between two hundredths the binary value of the quotient decides, which
\* the model leaves open: both neighbours are possible.
Round2(usd) ==
    LET q == usd \div 10000
        r == usd % 10000
    IN  IF r < 5000 THEN {q}
        ELSE IF r > 5000 THEN {q + 1}
        ELSE {q, q + 1}

----------------------------------------------------------------------------
(* JSON values *)

\* A key of a JSON object: present with a string value, or absent.
Str(s) == [present |-> TRUE, text |-> s]
Absent == [present |-> FALSE, text |-> <<>>]

\* dict.get(key, default)
Get(field, default) == IF field.present THEN field.text ELSE default

\* Python truthiness of a string
Truthy(s) == Len(s) > 0

NoneStr == <<"N", "o", "n", "e">>
ZeroStr == <<"0">>

\* A tool argument as the caller sent it: absent, a JSON number or a JSON string.
AbsentArg == [kind |-> "absent", val |-> 0, text |-> <<>>]
IntArg(n) == [kind |-> "int", val |-> n, text |-> <<>>]
StrArg(s) == [kind |-> "str", val |-> 0, text |-> s]

\* Result documents.  kind is "success" or "error" for a returned document and
\* "exception" when the handler raised instead of returning.  target_period is
\* the position in quarterlyReports of the report the metric was taken from.
Document(kind, message) ==
    [kind |-> kind, message |-> message, target_period |-> 0,
     fiscal_date_ending |-> Absent,
     total_revenue_usd_millions |-> 0,
     free_cash_flow_usd_millions |-> 0,
     operating_cash_flow_usd_millions |-> 0,
     capital_expenditures_usd_millions |-> 0]

ErrorDocument(message) == Document("error", message)
Raised(message) == Document("exception", message)
NoResult == Document("none", "")
\* Not a document: validation passed and the credential was read, the handler
\* goes on to the upstream GET.
Proceed == Document("call", "")

----------------------------------------------------------------------------
(* mcp-server/server.py *)

VALID_SYMBOLS == {<<"M", "S", "F", "T">>, <<"T", "S", "L", "A">>, <<"N", "V", "D", "A">>}

\* Python None as returned by map_month_to_quarter; falsy like it.
None == 0

\* map_month_to_quarter with calendar quarters instead of the fiscal table.
map_month_to_quarter_calendar(month) ==
    IF month \in 1..12 THEN ((month - 1) \div 3) + 1 ELSE None

map_month_to_quarter(month) ==
    IF month \in {9, 10} THEN 1
    ELSE IF month \in {12, 1} THEN 2
    ELSE IF month \in {3, 4} THEN 3
    ELSE IF month \in {6, 7} THEN 4
    ELSE None

\* get_api_key(): TRUE when it raises ValueError
get_api_key_raises(key) == ~key

\* find_from without the comparison of the year.
RECURSIVE find_from_any_year(_, _, _, _)
find_from_any_year(reports, fiscal_year, fiscal_quarter, i) ==
    IF i > Len(reports)
    THEN [raised |-> FALSE, index |-> IF Len(reports) > 0 THEN 1 ELSE 0]
    ELSE
        LET fiscal_date == Get(reports[i].fiscalDateEnding, <<>>)
        IN  IF ~Truthy(fiscal_date) \/ Len(fiscal_date) < 7
            THEN find_from_any_year(reports, fiscal_year, fiscal_quarter, i + 1)
            ELSE
                LET report_year == PyInt(Slice(fiscal_date, 0, 4))
                    report_month == PyInt(Slice(fiscal_date, 5, 7))
                    report_quarter == map_month_to_quarter(report_month.val)
                IN  IF ~report_year.ok \/ ~report_month.ok
                    THEN [raised |-> TRUE, index |-> 0]
                    ELSE IF report_quarter # None /\ report_quarter = fiscal_quarter
                    THEN [raised |-> FALSE, index |-> i]
                    ELSE find_from_any_year(reports, fiscal_year, fiscal_quarter, i + 1)

\* find_from without the test of the date's length: every record is parsed.
RECURSIVE find_from_unguarded(_, _, _, _)
find_from_unguarded(reports, fiscal_year, fiscal_quarter, i) ==
    IF i > Len(reports)
    THEN [raised |-> FALSE, index |-> IF Len(reports) > 0 THEN 1 ELSE 0]
    ELSE
        LET fiscal_date == Get(reports[i].fiscalDateEnding, <<>>)
            report_year == PyInt(Slice(fiscal_date, 0, 4))
            report_month == PyInt(Slice(fiscal_date, 5, 7))
            report_quarter == map_month_to_quarter(report_month.val)
        IN  IF ~report_year.ok \/ ~report_month.ok
            THEN [raised |-> TRUE, index |-> 0]
            ELSE IF report_quarter # None
                    /\ report_year.val = fiscal_year
                    /\ report_quarter = fiscal_quarter
            THEN [raised |-> FALSE, index |-> i]
            ELSE find_from_unguarded(reports, fiscal_year, fiscal_quarter, i + 1)

\* find_from passing over a record whose year or month is not an integer.
RECURSIVE find_from_skip_malformed(_, _, _, _)
find_from_skip_malformed(reports, fiscal_year, fiscal_quarter, i) ==
    IF i > Len(reports)
    THEN [raised |-> FALSE, index |-> IF Len(reports) > 0 THEN 1 ELSE 0]
    ELSE
        LET fiscal_date == Get(reports[i].fiscalDateEnding, <<>>)
        IN  IF ~Truthy(fiscal_date) \/ Len(fiscal_date) < 7
            THEN find_from_skip_malformed(reports, fiscal_year, fiscal_quarter, i + 1)
            ELSE
                LET report_year == PyInt(Slice(fiscal_date, 0, 4))
                    report_month == PyInt(Slice(fiscal_date, 5, 7))
                    report_quarter == map_month_to_quarter(report_month.val)
                IN  IF report_year.ok /\ report_month.ok
                       /\ report_quarter # None
                       /\ report_year.val = fiscal_year
                       /\ report_quarter = fiscal_quarter
                    THEN [raised |-> FALSE, index |-> i]
                    ELSE find_from_skip_malformed(reports, fiscal_year,
                                                  fiscal_quarter, i + 1)

\* find_from without the fallback: None when no record matches.
RECURSIVE find_from_no_fallback(_, _, _, _)
find_from_no_fallback(reports, fiscal_year, fiscal_quarter, i) ==
    IF i > Len(reports)
    THEN [raised |-> FALSE, index |-> 0]
    ELSE
        LET fiscal_date == Get(reports[i].fiscalDateEnding, <<>>)
        IN  IF ~Truthy(fiscal_date) \/ Len(fiscal_date) < 7
            THEN find_from_no_fallback(reports, fiscal_year, fiscal_quarter, i + 1)
            ELSE
                LET report_year == PyInt(Slice(fiscal_date, 0, 4))
                    report_month == PyInt(Slice(fiscal_date, 5, 7))
                    report_quarter == map_month_to_quarter(report_month.val)
                IN  IF ~report_year.ok \/ ~report_month.ok
                    THEN [raised |-> TRUE, index |-> 0]
                    ELSE IF report_quarter # None
                            /\ report_year.val = fiscal_year
                            /\ report_quarter = fiscal_quarter
                    THEN [raised |-> FALSE, index |-> i]
                    ELSE find_from_no_fallback(reports, fiscal_year,
                                               fiscal_quarter, i + 1)

\* One pass of the loop of find_quarterly_report from position i on.
\* [raised, index]: raised is the ValueError of int(); index 0 is None.
RECURSIVE find_from(_, _, _, _)
find_from(reports, fiscal_year, fiscal_quarter, i) ==
    IF i > Len(reports)
    THEN [raised |-> FALSE, index |-> IF Len(reports) > 0 THEN 1 ELSE 0]
    ELSE
        LET fiscal_date == Get(reports[i].fiscalDateEnding, <<>>)
        IN  IF ~Truthy(fiscal_date) \/ Len(fiscal_date) < 7
            THEN find_from(reports, fiscal_year, fiscal_quarter, i + 1)
            ELSE
                LET report_year == PyInt(Slice(fiscal_date, 0, 4))
                    report_month == PyInt(Slice(fiscal_date, 5, 7))
                    report_quarter == map_month_to_quarter(report_month.val)
                IN  IF ~report_year.ok \/ ~report_month.ok
                    THEN [raised |-> TRUE, index |-> 0]
                    ELSE IF report_quarter # None
                            /\ report_year.val = fiscal_year
                            /\ report_quarter = fiscal_quarter
                    THEN [raised |-> FALSE, index |-> i]
                    ELSE find_from(reports, fiscal_year, fiscal_quarter, i + 1)

find_quarterly_report(reports, fiscal_year, fiscal_quarter) ==
    find_from(reports, fiscal_year, fiscal_quarter, 1)

\* AmountOf without the test for the literal "None".
AmountOf_none_parsed(field) ==
    LET str == Get(field, ZeroStr)
    IN  IF Truthy(str)
        THEN LET f == PyFloat(str) IN [raised |-> ~f.ok, val |-> f.val]
        ELSE [raised |-> FALSE, val |-> 0]

\* A metric field read as server.py:143-144 and 226-230 read it:
\* [raised, val] with val in USD.
AmountOf(field) ==
    LET str == Get(field, ZeroStr)
    IN  IF Truthy(str) /\ str # NoneStr
        THEN LET f == PyFloat(str) IN [raised |-> ~f.ok, val |-> f.val]
        ELSE [raised |-> FALSE, val |-> 0]

\* The success documents of the revenue tool for the report at position i.
RevenueDocuments(reports, i) ==
    LET target_period == reports[i]
        revenue == AmountOf(target_period.totalRevenue)
    IN  IF revenue.raised
        THEN {ErrorDocument("could not convert string to float")}
        ELSE {[Document("success", "") EXCEPT
                  !.target_period = i,
                  !.fiscal_date_ending = target_period.fiscalDateEnding,
                  !.total_revenue_usd_millions = m] : m \in Round2(revenue.val)}

\* FreeCashFlowDocuments with capital expenditures added as signed upstream.
FreeCashFlowDocuments_signed(reports, i) ==
    LET target_period == reports[i]
        op_cashflow == AmountOf(target_period.operatingCashflow)
        capex == AmountOf(target_period.capitalExpenditures)
        free_cash_flow == op_cashflow.val + capex.val
    IN  IF op_cashflow.raised \/ capex.raised
        THEN {ErrorDocument("could not convert string to float")}
        ELSE {[Document("success", "") EXCEPT
                  !.target_period = i,
                  !.fiscal_date_ending = target_period.fiscalDateEnding,
                  !.free_cash_flow_usd_millions = f,
                  !.operating_cash_flow_usd_millions = o,
                  !.capital_expenditures_usd_millions = c] :
                f \in Round2(free_cash_flow),
                o \in Round2(op_cashflow.val),
                c \in Round2(Abs(capex.val))}

\* The success documents of the free-cash-flow tool for the report at position i.
FreeCashFlowDocuments(reports, i) ==
    LET target_period == reports[i]
        op_cashflow == AmountOf(target_period.operatingCashflow)
        capex == AmountOf(target_period.capitalExpenditures)
        free_cash_flow == op_cashflow.val - Abs(capex.val)
    IN  IF op_cashflow.raised \/ capex.raised
        THEN {ErrorDocument("could not convert string to float")}
        ELSE {[Document("success", "") EXCEPT
                  !.target_period = i,
                  !.fiscal_date_ending = target_period.fiscalDateEnding,
                  !.free_cash_flow_usd_millions = f,
                  !.operating_cash_flow_usd_millions = o,
                  !.capital_expenditures_usd_millions = c] :
                f \in Round2(free_cash_flow),
                o \in Round2(op_cashflow.val),
                c \in Round2(Abs(capex.val))}

\* A typed argument of the standalone server: the framework hands the handler
\* the declared default when the caller left the argument out.
ArgOr(arg, default) == IF arg.kind = "absent" THEN default ELSE arg.val

\* get_company_revenue / get_company_free_cash_flow up to the upstream GET
\* (server.py:109-125, 192-208): validation, then get_api_key() inside
\* fetch_alpha_vantage, inside the try.
server_tool_begin(req, key) ==
    LET symbol == Upper(req.company_symbol.text)
        fiscal_quarter == ArgOr(req.fiscal_quarter, 4)
    IN  IF symbol \notin VALID_SYMBOLS
        THEN ErrorDocument("Invalid company symbol")
        ELSE IF fiscal_quarter \notin {1, 2, 3, 4}
        THEN ErrorDocument("Fiscal quarter must be 1, 2, 3, or 4")
        ELSE IF get_api_key_raises(key)
        THEN ErrorDocument("ALPHAVANTAGE_API_KEY environment variable is required")
        ELSE Proceed

\* The rest of the handler, from the upstream response on (server.py:69-71,
\* 126-170, 209-262): the set of documents it can return.
server_tool_finish(req, resp) ==
    LET fiscal_year == ArgOr(req.fiscal_year, 2024)
        fiscal_quarter == ArgOr(req.fiscal_quarter, 4)
        quarterly_reports == resp.quarterlyReports
        found == find_quarterly_report(quarterly_reports, fiscal_year, fiscal_quarter)
    IN  IF resp.kind \in {"timeout", "status"}
        THEN {ErrorDocument("HTTP error")}
        ELSE IF resp.kind = "malformed"
        THEN {ErrorDocument("Expecting value")}
        ELSE IF quarterly_reports = <<>>
        THEN {ErrorDocument("No quarterly data available")}
        ELSE IF found.raised
        THEN {ErrorDocument("invalid literal for int()")}
        ELSE IF found.index = 0
        THEN {ErrorDocument("No data found")}
        ELSE IF req.tool = "revenue"
        THEN RevenueDocuments(quarterly_reports, found.index)
        ELSE FreeCashFlowDocuments(quarterly_reports, found.index)

----------------------------------------------------------------------------
(* src/function_app.py *)

\* _get_env(name): TRUE when it raises RuntimeError
_get_env_raises(key) == ~key

\* int(args.get(name, default)): [ok, val], ok = FALSE is ValueError
IntOfArg(arg, default) ==
    IF arg.kind = "absent" THEN [ok |-> TRUE, val |-> default]
    ELSE IF arg.kind = "int" THEN [ok |-> TRUE, val |-> arg.val]
    ELSE PyInt(arg.text)

\* The handler up to the upstream GET (function_app.py:78-109, 196-227): the
\* arguments are read and converted before the try, then validated, then the
\* credential is read inside the try.
function_tool_begin(req, key) ==
    LET symbol == Upper(Get([present |-> req.company_symbol.kind # "absent",
                             text |-> req.company_symbol.text],
                            <<"M", "S", "F", "T">>))
        fiscal_year == IntOfArg(req.fiscal_year, 2024)
        fiscal_quarter == IntOfArg(req.fiscal_quarter, 4)
    IN  IF ~fiscal_year.ok \/ ~fiscal_quarter.ok
        THEN Raised("ValueError: invalid literal for int()")
        ELSE IF symbol \notin VALID_SYMBOLS
        THEN ErrorDocument("Invalid company symbol")
        ELSE IF fiscal_quarter.val \notin {1, 2, 3, 4}
        THEN ErrorDocument("Fiscal quarter must be 1, 2, 3, or 4")
        ELSE IF _get_env_raises(key)
        THEN ErrorDocument("Missing required environment variable")
        ELSE Proceed

\* The matching loop of the handler from position i on (function_app.py:116-136,
\* 234-254).  [raised, index]: index 0 is target_period = None after the loop.
RECURSIVE function_scan_from(_, _, _, _)
function_scan_from(reports, fiscal_year, fiscal_quarter, i) ==
    IF i > Len(reports)
    THEN [raised |-> FALSE, index |-> 0]
    ELSE
        LET fiscal_date == Get(reports[i].fiscalDateEnding, <<>>)
            report_year == PyInt(Slice(fiscal_date, 0, 4))
            report_month == PyInt(Slice(fiscal_date, 5, 7))
            mapped ==
                \/ fiscal_quarter = 1 /\ report_month.val \in {9, 10}
                \/ fiscal_quarter = 2 /\ report_month.val \in {12, 1}
                \/ fiscal_quarter = 3 /\ report_month.val \in {3, 4}
                \/ fiscal_quarter = 4 /\ report_month.val \in {6, 7}
        IN  IF ~report_year.ok \/ ~report_month.ok
            THEN [raised |-> TRUE, index |-> 0]
            ELSE IF mapped /\ report_year.val = fiscal_year
            THEN [raised |-> FALSE, index |-> i]
            ELSE function_scan_from(reports, fiscal_year, fiscal_quarter, i + 1)

\* target_period as the handler settles it (function_app.py:116-147, 234-265):
\* the loop, then the fallback to the first report.  index 0 is no report.
function_target_period(reports, fiscal_year, fiscal_quarter) ==
    LET scan == function_scan_from(reports, fiscal_year, fiscal_quarter, 1)
    IN  IF scan.raised \/ scan.index # 0 THEN scan
        ELSE [raised |-> FALSE, index |-> IF reports # <<>> THEN 1 ELSE 0]

\* The rest of the handler, from the upstream response on (function_app.py:
\* 110-173, 228-300): the set of documents it can return.  The metric is read
\* and rounded by the same statements as in server.py.
function_tool_finish(req, resp) ==
    LET fiscal_year == IntOfArg(req.fiscal_year, 2024).val
        fiscal_quarter == IntOfArg(req.fiscal_quarter, 4).val
        quarterly_reports == resp.quarterlyReports
        target_period ==
            function_target_period(quarterly_reports, fiscal_year, fiscal_quarter)
    IN  IF resp.kind \in {"timeout", "status"}
        THEN {ErrorDocument("HTTP error")}
        ELSE IF resp.kind = "malformed"
        THEN {ErrorDocument("Expecting value")}
        ELSE IF target_period.raised
        THEN {ErrorDocument("invalid literal for int()")}
        ELSE IF target_period.index = 0
        THEN {ErrorDocument("No quarterly data available")}
        ELSE IF req.tool = "revenue"
        THEN RevenueDocuments(quarterly_reports, target_period.index)
        ELSE FreeCashFlowDocuments(quarterly_reports, target_period.index)

----------------------------------------------------------------------------
(* The inputs of the model *)

MSFT == <<"M", "S", "F", "T">>
tsla == <<"t", "s", "l", "a">>
GOOG == <<"G", "O", "O", "G">>

\* fiscalDateEnding values of upstream records
Date_2024_06_30 == Str(<<"2", "0", "2", "4", "-", "0", "6", "-", "3", "0">>)
Date_2024_07    == Str(<<"2", "0", "2", "4", "-", "0", "7">>)
Date_2023_06_30 == Str(<<"2", "0", "2", "3", "-", "0", "6", "-", "3", "0">>)
Date_2024_05_31 == Str(<<"2", "0", "2", "4", "-", "0", "5", "-", "3", "1">>)
Date_2024_6     == Str(<<"2", "0", "2", "4", "-", "6">>)
Date_FY24_06_30 == Str(<<"F", "Y", "2", "4", "-", "0", "6", "-", "3", "0">>)
Date_2024_Q4_30 == Str(<<"2", "0", "2", "4", "-", "Q", "4", "-", "3", "0">>)

Dates == {Date_2024_06_30, Date_2024_07, Date_2023_06_30, Date_2024_05_31,
          Date_2024_6, Absent, Date_FY24_06_30, Date_2024_Q4_30}

\* metric values of upstream records
Amount_123000000  == Str(<<"1", "2", "3", "0", "0", "0", "0", "0", "0">>)
Amount_500000000  == Str(<<"5", "0", "0", "0", "0", "0", "0", "0", "0">>)
Amount_100000000  == Str(<<"1", "0", "0", "0", "0", "0", "0", "0", "0">>)
Amount_m100000000 == Str(<<"-", "1", "0", "0", "0", "0", "0", "0", "0", "0">>)
Amount_m5000      == Str(<<"-", "5", "0", "0", "0">>)
Amount_15000      == Str(<<"1", "5", "0", "0", "0">>)
Amount_None       == Str(NoneStr)
Amount_NA         == Str(<<"N", "/", "A">>)

Report(date, revenue, op, capex) ==
    [fiscalDateEnding |-> date, totalRevenue |-> revenue,
     operatingCashflow |-> op, capitalExpenditures |-> capex]

\* quarterlyReports records of INCOME_STATEMENT
IncomeReports ==
    {Report(d, r, Absent, Absent) :
        d \in Dates, r \in {Amount_123000000, Amount_None, Amount_NA, Absent}}

\* quarterlyReports records of CASH_FLOW
CashFlowReports ==
    {Report(d, Absent, a[1], a[2]) :
        d \in Dates,
        a \in {<<Amount_500000000, Amount_m100000000>>,
               <<Amount_500000000, Amount_100000000>>,
               <<Amount_m5000, Amount_15000>>,
               <<Absent, Amount_None>>,
               <<Amount_500000000, Amount_NA>>}}

ReportLists(records) == UNION {[1..n -> records] : n \in 0..MaxReports}

Response(kind, reports) == [kind |-> kind, quarterlyReports |-> reports]
NoResponse == Response("none", <<>>)

\* What the Report Source can answer to the one GET: a timeout, a non-2xx
\* status, a body that is not JSON, or a JSON object with quarterlyReports.
Responses(tool) ==
    {Response(k, <<>>) : k \in {"timeout", "status", "malformed"}}
    \cup {Response("ok", l) :
            l \in ReportLists(IF tool = "revenue" THEN IncomeReports
                              ELSE CashFlowReports)}

Request(deployment, tool, symbol, year, quarter) ==
    [deployment |-> deployment, tool |-> tool, company_symbol |-> symbol,
     fiscal_year |-> year, fiscal_quarter |-> quarter]
NoRequest == Request("none", "none", AbsentArg, AbsentArg, AbsentArg)

Tools == {"revenue", "fcf"}

\* The standalone server receives arguments the framework has typed.
ServerRequests ==
    {Request("server", t, StrArg(s), IntArg(2024), q) :
        t \in Tools, s \in {tsla, GOOG},
        q \in {IntArg(4), IntArg(3), IntArg(5)}}

\* The serverless handler receives the arguments as the caller sent them.
FunctionRequests ==
    {Request("function", t, s, y, q) :
        t \in Tools, s \in {StrArg(MSFT), StrArg(GOOG)},
        y \in {IntArg(2024), StrArg(<<"F", "Y", "2", "4">>)},
        q \in {AbsentArg, IntArg(3), IntArg(5), StrArg(<<"Q", "4">>)}}

Requests == ServerRequests \cup FunctionRequests

----------------------------------------------------------------------------
(* The state machine: one invocation at a time, from the call of the tool to
   the return of its document. *)

tool_begin(req, key) ==
    IF req.deployment = "server" THEN server_tool_begin(req, key)
    ELSE function_tool_begin(req, key)

tool_finish(req, resp) ==
    IF req.deployment = "server" THEN server_tool_finish(req, resp)
    ELSE function_tool_finish(req, resp)

Init ==
    /\ pc = "idle"
    /\ request = NoRequest
    /\ api_key \in BOOLEAN
    /\ calls = 0
    /\ response = NoResponse
    /\ result = NoResult

\* A tool is invoked: the handler runs up to the upstream GET, which it issues
\* (client.get / requests.get), or returns or raises before it.
Invoke(req) ==
    /\ pc = "idle"
    /\ request' = req
    /\ LET doc == tool_begin(req, api_key)
       IN  IF doc = Proceed
           THEN /\ pc' = "waiting"
                /\ calls' = 1
                /\ result' = NoResult
           ELSE /\ pc' = "done"
                /\ calls' = 0
                /\ result' = doc
    /\ UNCHANGED <<api_key, response>>

\* Receive with the GET issued again after a failure.
Receive_retry ==
    /\ pc = "waiting"
    /\ \E resp \in Responses(request.tool) :
          /\ response' = resp
          /\ IF resp.kind \in {"timeout", "status"} /\ calls < 3
             THEN /\ pc' = "waiting"
                  /\ calls' = calls + 1
                  /\ result' = result
             ELSE /\ pc' = "done"
                  /\ calls' = calls
                  /\ result' \in tool_finish(request, resp)
    /\ UNCHANGED <<request, api_key>>

\* The GET completes, times out or fails, and the handler runs to its return.
Receive ==
    /\ pc = "waiting"
    /\ \E resp \in Responses(request.tool) :
          /\ response' = resp
          /\ result' \in tool_finish(request, resp)
    /\ pc' = "done"
    /\ UNCHANGED <<request, api_key, calls>>

\* The document has been handed to the caller; the next invocation starts
\* from nothing (no state is shared between invocations).
Return ==
    /\ pc = "done"
    /\ pc' = "idle"
    /\ request' = NoRequest
    /\ response' = NoResponse
    /\ result' = NoResult
    /\ calls' = 0
    /\ UNCHANGED api_key

Next ==
    \/ \E req \in Requests : Invoke(req)
    \/ Receive
    \/ Return

Spec == Init /\ [][Next]_vars

----------------------------------------------------------------------------
(* Vocabulary of the properties *)

\* The invocation has ended: the handler returned a document or raised.
Done == pc = "done"

\* The handler got an upstream answer that carries a report list.
Answered == Done /\ response.kind = "ok"

SentSymbol(req) ==
    Upper(IF req.company_symbol.kind = "absent" THEN MSFT ELSE req.company_symbol.text)

SentYear(req) == IntOfArg(req.fiscal_year, 2024)
SentQuarter(req) == IntOfArg(req.fiscal_quarter, 4)

\* The request is one validation accepts: a supported symbol and a quarter 1..4.
PassesValidation(req) ==
    /\ SentYear(req).ok
    /\ SentQuarter(req).ok
    /\ SentSymbol(req) \in VALID_SYMBOLS
    /\ SentQuarter(req).val \in 1..4

DateText(r) == IF r.fiscalDateEnding.present THEN r.fiscalDateEnding.text ELSE <<>>

\* The period-end date is absent or shorter than 7 characters.
ShortDate(r) == Len(DateText(r)) < 7

YearOf(r) == ParseDecimal(SubSeq(DateText(r), 1, 4))
MonthOf(r) == ParseDecimal(SubSeq(DateText(r), 6, 7))

\* A date of 7 or more characters whose year or month is not an integer.
MalformedDate(r) == ~ShortDate(r) /\ ~(YearOf(r).ok /\ MonthOf(r).ok)

QuarterMonths(q) ==
    CASE q = 1 -> {9, 10} [] q = 2 -> {12, 1} [] q = 3 -> {3, 4} [] q = 4 -> {6, 7}
      [] OTHER -> {}

\* The record is an exact match of the requested period.
ExactMatch(r, fiscal_year, fiscal_quarter) ==
    IF ShortDate(r) THEN FALSE
    ELSE LET y == YearOf(r)
             m == MonthOf(r)
         IN  /\ y.ok /\ m.ok
             /\ y.val = fiscal_year
             /\ m.val \in QuarterMonths(fiscal_quarter)

Matches(reports, fiscal_year, fiscal_quarter) ==
    {i \in 1..Len(reports) : ExactMatch(reports[i], fiscal_year, fiscal_quarter)}

Least(S) == CHOOSE i \in S : \A j \in S : i <= j

\* The position the matcher is to return, m being the positions of the exact
\* matches: the first exact match, else the first record, else 0 for none.
Expected(reports, m) ==
    IF m # {} THEN Least(m) ELSE IF Len(reports) > 0 THEN 1 ELSE 0

\* The malformed records the scan meets before any exact match, m being the
\* positions of the exact matches.
Blocking(reports, m) ==
    {i \in 1..Len(reports) :
        MalformedDate(reports[i]) /\ \A j \in m : i < j}

\* The position of the report the deployment's matching settles on for the
\* invocation, 0 when there is none or the matching raised.
Target(req, resp) ==
    LET t == IF req.deployment = "server"
             THEN find_quarterly_report(resp.quarterlyReports,
                                        SentYear(req).val, SentQuarter(req).val)
             ELSE function_target_period(resp.quarterlyReports,
                                         SentYear(req).val, SentQuarter(req).val)
    IN  IF resp.kind = "ok" /\ ~t.raised THEN t.index ELSE 0

----------------------------------------------------------------------------
(* Properties *)

\* C1: in both deployments and for both tools, an invocation whose upper-cased
\* company symbol is not MSFT, TSLA or NVDA, or whose fiscal_quarter is not one
\* of 1, 2, 3, 4, ends with an error document and has made no upstream call.
C1_InvalidInputRejected ==
    Done /\ ( \/ SentSymbol(request) \notin VALID_SYMBOLS
              \/ SentQuarter(request).ok /\ SentQuarter(request).val \notin 1..4 )
        => result.kind = "error" /\ calls = 0

\* C2 as claimed: for every report list and requested period,
\* find_quarterly_report returns the first exact match, else the first record,
\* and none only for the empty list.
C2_FirstMatchOrFirstRecord ==
    Answered /\ request.deployment = "server" =>
        LET fy == SentYear(request).val
            fq == SentQuarter(request).val
            reports == response.quarterlyReports
            found == find_quarterly_report(reports, fy, fq)
        IN  /\ ~found.raised
            /\ found.index = Expected(reports, Matches(reports, fy, fq))

\* C2 amended: find_quarterly_report raises exactly when a record whose date
\* has 7 or more characters and a non-integer year or month comes before every
\* exact match; otherwise it returns the first exact match, else the first
\* record, and none only for the empty list.  The success document of the
\* standalone server is built from the report at that position.
C2_FirstMatchUnlessMalformed ==
    Answered /\ request.deployment = "server" =>
        LET fy == SentYear(request).val
            fq == SentQuarter(request).val
            reports == response.quarterlyReports
            found == find_quarterly_report(reports, fy, fq)
            m == Matches(reports, fy, fq)
            expected == Expected(reports, m)
        IN  /\ found.raised <=> Blocking(reports, m) # {}
            /\ ~found.raised => found.index = expected
            /\ found.index = 0 => found.raised \/ reports = <<>>
            /\ result.kind = "success" => result.target_period = expected

\* C2 witness: the second record is returned as the first exact match, past a
\* first record of another year.
C2_Witness ==
    /\ Answered /\ request.deployment = "server"
    /\ Len(response.quarterlyReports) = 2
    /\ response.quarterlyReports[1].fiscalDateEnding = Date_2023_06_30
    /\ response.quarterlyReports[2].fiscalDateEnding = Date_2024_06_30
    /\ SentQuarter(request).val = 4
    /\ result.kind = "success" /\ result.target_period = 2

\* C3: every invocation ends by returning a result document, success or error;
\* no exception leaves the tool handler.
C3_AlwaysADocument == Done => result.kind \in {"success", "error"}

\* The worth in USD of the metric values the model's records carry; a field
\* that is absent or "None" is worth nothing.
Worth(field) ==
    CASE field = Amount_123000000 -> 123000000
      [] field = Amount_500000000 -> 500000000
      [] field = Amount_100000000 -> 100000000
      [] field = Amount_m100000000 -> 0 - 100000000
      [] field = Amount_m5000 -> 0 - 5000
      [] field = Amount_15000 -> 15000
      [] OTHER -> 0

\* The field is absent, empty or the literal "None".
ZeroField(field) == ~field.present \/ field.text = <<>> \/ field.text = NoneStr

\* The field holds a decimal number.
NumberField(field) ==
    field \in {Amount_123000000, Amount_500000000, Amount_100000000,
               Amount_m100000000, Amount_m5000, Amount_15000}

\* The numeric fields a tool reads from the matched report.
FieldsRead(tool, r) ==
    IF tool = "revenue" THEN {r.totalRevenue}
    ELSE {r.operatingCashflow, r.capitalExpenditures}

MaxMonth == 14

C6_FreeCashFlow ==
    Done /\ request.tool = "fcf" /\ result.kind = "success" =>
        LET r == response.quarterlyReports[result.target_period]
            op == Worth(r.operatingCashflow)
            capex == Worth(r.capitalExpenditures)
        IN  /\ result.free_cash_flow_usd_millions \in Round2(op - Abs(capex))
            /\ result.operating_cash_flow_usd_millions \in Round2(op)
            /\ result.capital_expenditures_usd_millions \in Round2(Abs(capex))
            /\ result.capital_expenditures_usd_millions >= 0
            /\ op = 500000000 /\ Abs(capex) = 100000000
                   => /\ result.free_cash_flow_usd_millions = 40000
                      /\ result.capital_expenditures_usd_millions = 10000

\* C6 witness: operatingCashflow 500000000 with capitalExpenditures -100000000
\* reported as free cash flow 400.0 and capital expenditures 100.0.
C6_Witness ==
    /\ Done /\ request.tool = "fcf" /\ result.kind = "success"
    /\ response.quarterlyReports[result.target_period].operatingCashflow
          = Amount_500000000
    /\ response.quarterlyReports[result.target_period].capitalExpenditures
          = Amount_m100000000
    /\ result.free_cash_flow_usd_millions = 40000
    /\ result.capital_expenditures_usd_millions = 10000

\* C7 as claimed: a matched report with totalRevenue "123000000" yields
\* total_revenue_usd_millions 0.12.
C7_Revenue012 ==
    Done /\ request.tool = "revenue" /\ result.kind = "success"
         /\ response.quarterlyReports[result.target_period].totalRevenue
               = Amount_123000000
        => result.total_revenue_usd_millions = 12

\* C7 amended: a matched report with totalRevenue "123000000" yields
\* total_revenue_usd_millions 123.0, the value divided by 1,000,000 and rounded
\* to 2 decimals.
C7_Revenue123 ==
    Done /\ request.tool = "revenue" /\ response.kind = "ok" =>
        LET target == Target(request, response)
        IN  target # 0 /\ response.quarterlyReports[target].totalRevenue
                             = Amount_123000000
            => /\ result.kind = "success"
               /\ result.total_revenue_usd_millions = 12300

\* C7 witness: a revenue document built from a report with totalRevenue
\* "123000000".
C7_Witness ==
    /\ Done /\ request.tool = "revenue" /\ result.kind = "success"
    /\ response.quarterlyReports[result.target_period].totalRevenue
          = Amount_123000000
    /\ result.total_revenue_usd_millions = 12300

\* C8: an invocation issues at most one upstream call and never reissues it
\* after a failure; one that passes validation issues exactly one call when the
\* API credential is present and none, ending with an error document, when it
\* is absent.
C8_AtMostOneCall ==
    /\ calls \in {0, 1}
    /\ pc \in {"waiting", "done"} /\ PassesValidation(request)
          => calls = IF api_key THEN 1 ELSE 0
    /\ Done /\ PassesValidation(request) /\ ~api_key => result.kind = "error"
    /\ Done /\ ~PassesValidation(request) => calls = 0
    /\ Done /\ response.kind \in {"timeout", "status", "malformed"}
          => calls = 1 /\ result.kind = "error"

\* C8 witness: the one call of a valid invocation timed out and the invocation
\* ended with an error document, the call made once.
C8_Witness ==
    /\ Done /\ PassesValidation(request) /\ api_key
    /\ response.kind = "timeout"
    /\ calls = 1 /\ result.kind = "error"

\* The same request sent to the other deployment.
Twin(req) ==
    [req EXCEPT !.deployment = IF @ = "server" THEN "function" ELSE "server"]

\* The arguments are of the types the standalone server's signature declares,
\* so that the request can be put to either deployment.
Typed(req) ==
    /\ req.company_symbol.kind = "str"
    /\ req.fiscal_year.kind \in {"int", "absent"}
    /\ req.fiscal_quarter.kind \in {"int", "absent"}

\* What a document says, its message aside.
Outcome(doc) == [doc EXCEPT !.message = ""]

\* C9: for every valid request and every upstream report list, both deployments
\* select the same report and return the same kind of outcome with the same
\* fiscal_date_ending and the same derived values.
C9_SameOutcome ==
    Answered /\ PassesValidation(request) /\ Typed(request) =>
        \E doc \in tool_finish(Twin(request), response) :
            Outcome(doc) = Outcome(result)

\* C10: in find_quarterly_report a record whose date is absent or shorter than
\* 7 characters is passed over without raising and is never returned as an
\* exact match, so a later matching record is still found; it is returned only
\* as the fallback, as the first element of a list without any exact match.
C10_ShortDateSkipped ==
    Answered /\ request.deployment = "server" =>
        LET fy == SentYear(request).val
            fq == SentQuarter(request).val
            reports == response.quarterlyReports
            found == find_quarterly_report(reports, fy, fq)
            m == Matches(reports, fy, fq)
        IN  /\ (\A i \in 1..Len(reports) : ~MalformedDate(reports[i]))
                   => ~found.raised
            /\ found.index # 0 /\ ShortDate(reports[found.index])
                   => found.index = 1 /\ m = {}
            /\ (\E i \in 1..Len(reports) :
                       ShortDate(reports[i]) /\ \E j \in m : i < j)
                   /\ Blocking(reports, m) = {}
                   => ~found.raised /\ found.index = Least(m)
            /\ result.kind = "success"
                   /\ ShortDate(reports[result.target_period])
                   => result.target_period = 1 /\ m = {}

\* C10 witness: the first record has a 6-character date, the second is the
\* exact match and is the one returned.
C10_Witness ==
    /\ Answered /\ request.deployment = "server"
    /\ Len(response.quarterlyReports) = 2
    /\ response.quarterlyReports[1].fiscalDateEnding = Date_2024_6
    /\ response.quarterlyReports[2].fiscalDateEnding = Date_2024_06_30
    /\ SentQuarter(request).val = 4
    /\ result.kind = "success" /\ result.target_period = 2

\* C11 (standalone server): when a record that comes before the first exact
\* match has a fiscalDateEnding of 7 or more characters whose year or month is
\* not an integer, the invocation ends with an error document and the later
\* exact match is not returned: the matcher neither passes over that record
\* nor falls back to the first record.
C11_MalformedDateFailsInvocation ==
    Answered /\ request.deployment = "server" =>
        LET fy == SentYear(request).val
            fq == SentQuarter(request).val
            reports == response.quarterlyReports
            m == Matches(reports, fy, fq)
        IN  Blocking(reports, m) # {} =>
                /\ find_quarterly_report(reports, fy, fq).raised
                /\ result.kind = "error"
                /\ result.message = "invalid literal for int()"
                /\ result.target_period = 0

\* C11 witness: a first record dated "2024-Q4-30" before the exact match
\* "2024-06-30"; the invocation ended with the error document.
C11_Witness ==
    /\ Answered /\ request.deployment = "server"
    /\ Len(response.quarterlyReports) = 2
    /\ response.quarterlyReports[1].fiscalDateEnding = Date_2024_Q4_30
    /\ response.quarterlyReports[2].fiscalDateEnding = Date_2024_06_30
    /\ SentQuarter(request).val = 4
    /\ result.kind = "error" /\ result.message = "invalid literal for int()"

\* Every record of the list has a date that is absent, short or parses, and
\* numeric fields the tool can read.
WellFormed(tool, reports) ==
    \A i \in 1..Len(reports) :
        /\ ~MalformedDate(reports[i])
        /\ \A f \in FieldsRead(tool, reports[i]) : ZeroField(f) \/ NumberField(f)

====
